---- MODULE Spec2Model ----
(***************************************************************************)
(* Model of the DVR Stremio addon (src/main.go): the three request         *)
(* handlers handleCatalog, handleMeta and handleStream, the mapping        *)
(* recordingToMeta with formatDuration and formatFileSize, and the string  *)
(* functions of the Go standard library the handlers use.                  *)
(*                                                                         *)
(* Go strings are TLA+ strings.  A float64 number of seconds is held as a  *)
(* whole number of half seconds (3 stands for 1.5 s), so that fractional   *)
(* durations are in the model.  The two non-ASCII markers of the source    *)
(* (the red circle before the name of a running recording, the pictograms  *)
(* of the stream titles) are written in ASCII.                             *)
(***************************************************************************)
EXTENDS Integers, Sequences, FiniteSets, TLC

VARIABLES
    easyProxyURL,       \* configuration, set once by init()
    easyProxyPassword,  \* configuration, set once by init()
    upstream,           \* the recordings the EasyProxy API holds
    pc,                 \* "idle", or the handler that has just replied
    path,               \* r.URL.Path of the request
    err,                \* fetchRecordings returned an error
    searchQuery,        \* handleCatalog: searchQuery
    recordingID,        \* handleMeta, handleStream: recordingID
    active,             \* handleCatalog: active, after sort.Slice
    completed,          \* handleCatalog: completed, after sort.Slice
    valid,              \* handleCatalog: valid, the records of the catalog
    isActive,           \* handleStream: isActive
    response            \* the JSON document written by jsonResponse

vars == <<easyProxyURL, easyProxyPassword, upstream, pc, path, err, searchQuery,
          recordingID, active, completed, valid, isActive, response>>

-----------------------------------------------------------------------------
(* Bounds of the model. *)

\* longest upstream response drawn freely from a record universe
MaxRecs == 2

-----------------------------------------------------------------------------
(* Strings: package strings, and the byte order of Go's string comparison. *)

Char(s, i) == SubSeq(s, i, i)

\* printable ASCII in code order, without the double quote (34), the
\* backslash (92) and the backquote (96), which no string of the model
\* contains: each segment with the code of its first character
AsciiTable ==
    << <<32, " !">>,
       <<35, "#$%&'()*+,-./0123456789:;<=>?@ABCDEFGHIJKLMNOPQRSTUVWXYZ[">>,
       <<93, "]^_">>,
       <<97, "abcdefghijklmnopqrstuvwxyz{|}~">> >>

IndexIn(c, table) == CHOOSE i \in 1..Len(table) : Char(table, i) = c

CharsOf(table) == {Char(table, i) : i \in 1..Len(table)}

InTable(c, table) == c \in CharsOf(table)

\* the byte value of each character of the table
OrdOf ==
    [c \in UNION {CharsOf(AsciiTable[k][2]) : k \in 1..Len(AsciiTable)} |->
        LET seg == CHOOSE k \in 1..Len(AsciiTable) : c \in CharsOf(AsciiTable[k][2])
        IN  AsciiTable[seg][1] + IndexIn(c, AsciiTable[seg][2]) - 1]

\* the byte value of a one-character string
Ord(c) == OrdOf[c]

\* the one-character string of a byte value; a byte outside the table is
\* written "?" (no string of the model decodes to one)
Chr(b) ==
    IF \E c \in DOMAIN OrdOf : OrdOf[c] = b
    THEN CHOOSE c \in DOMAIN OrdOf : OrdOf[c] = b
    ELSE "?"

\* a > b on Go strings: bytewise lexicographic order
RECURSIVE StrGreater(_, _)
StrGreater(a, b) ==
    IF a = "" THEN FALSE
    ELSE IF b = "" THEN TRUE
    ELSE IF Head(a) = Head(b) THEN StrGreater(Tail(a), Tail(b))
    ELSE Ord(Head(a)) > Ord(Head(b))

HasPrefix(s, prefix) ==
    Len(s) >= Len(prefix) /\ SubSeq(s, 1, Len(prefix)) = prefix

HasSuffix(s, suffix) ==
    Len(s) >= Len(suffix) /\ SubSeq(s, Len(s) - Len(suffix) + 1, Len(s)) = suffix

TrimPrefix(s, prefix) ==
    IF HasPrefix(s, prefix) THEN SubSeq(s, Len(prefix) + 1, Len(s)) ELSE s

TrimSuffix(s, suffix) ==
    IF HasSuffix(s, suffix) THEN SubSeq(s, 1, Len(s) - Len(suffix)) ELSE s

\* strings.TrimRight(s, cutset) for a cutset of one character
RECURSIVE TrimRight(_, _)
TrimRight(s, c) ==
    IF s # "" /\ Char(s, Len(s)) = c THEN TrimRight(SubSeq(s, 1, Len(s) - 1), c) ELSE s

Contains(s, substr) ==
    \E i \in 1..(Len(s) - Len(substr) + 1) : SubSeq(s, i, i + Len(substr) - 1) = substr

UpperLetters == "ABCDEFGHIJKLMNOPQRSTUVWXYZ"
LowerLetters == "abcdefghijklmnopqrstuvwxyz"

UpperSet == CharsOf(UpperLetters)

LowerOf == [c \in UpperSet |-> Char(LowerLetters, IndexIn(c, UpperLetters))]

LowerChar(c) == IF c \in UpperSet THEN LowerOf[c] ELSE c

RECURSIVE ToLower(_)
ToLower(s) == IF s = "" THEN "" ELSE LowerChar(Head(s)) \o ToLower(Tail(s))

\* strings.Split(s, sep) for a separator of one character: the pieces of s
\* from position from on
RECURSIVE SplitFrom(_, _, _)
SplitFrom(s, sep, from) ==
    IF \E i \in from..Len(s) : Char(s, i) = sep
    THEN LET at == CHOOSE i \in from..Len(s) :
                       Char(s, i) = sep /\ \A j \in from..(i - 1) : Char(s, j) # sep
         IN  <<SubSeq(s, from, at - 1)>> \o SplitFrom(s, sep, at + 1)
    ELSE <<SubSeq(s, from, Len(s))>>

Split(s, sep) == SplitFrom(s, sep, 1)

RECURSIVE Join(_, _)
Join(elems, sep) ==
    IF elems = <<>> THEN ""
    ELSE IF Len(elems) = 1 THEN elems[1]
    ELSE elems[1] \o sep \o Join(Tail(elems), sep)

-----------------------------------------------------------------------------
(* Package net/url. *)

HexDigits == "0123456789ABCDEF"

HexSet == CharsOf(HexDigits) \cup CharsOf("abcdef")

IsHex(c) == c \in HexSet

UnHex(c) == IF InTable(c, HexDigits) THEN IndexIn(c, HexDigits) - 1
            ELSE 9 + IndexIn(c, "abcdef")

\* url.QueryUnescape: err # nil when a "%" is not followed by two hex digits
RECURSIVE UnescapeOK(_)
UnescapeOK(s) ==
    IF s = "" THEN TRUE
    ELSE IF Head(s) = "%"
         THEN /\ Len(s) >= 3
              /\ IsHex(Char(s, 2))
              /\ IsHex(Char(s, 3))
              /\ UnescapeOK(SubSeq(s, 4, Len(s)))
         ELSE UnescapeOK(Tail(s))

RECURSIVE UnescapeText(_)
UnescapeText(s) ==
    IF s = "" THEN ""
    ELSE IF Head(s) = "%"
         THEN Chr(16 * UnHex(Char(s, 2)) + UnHex(Char(s, 3)))
                  \o UnescapeText(SubSeq(s, 4, Len(s)))
    ELSE IF Head(s) = "+" THEN " " \o UnescapeText(Tail(s))
    ELSE Head(s) \o UnescapeText(Tail(s))

QueryUnescape(s) ==
    IF UnescapeOK(s) THEN [err |-> FALSE, decoded |-> UnescapeText(s)]
    ELSE [err |-> TRUE, decoded |-> ""]

Unreserved ==
    CharsOf(UpperLetters) \cup CharsOf(LowerLetters) \cup CharsOf("0123456789-_.~")

IsUnreserved(c) == c \in Unreserved

\* url.QueryEscape
RECURSIVE QueryEscape(_)
QueryEscape(s) ==
    IF s = "" THEN ""
    ELSE (IF IsUnreserved(Head(s)) THEN Head(s)
          ELSE IF Head(s) = " " THEN "+"
          ELSE "%" \o Char(HexDigits, (Ord(Head(s)) \div 16) + 1)
                   \o Char(HexDigits, (Ord(Head(s)) % 16) + 1))
         \o QueryEscape(Tail(s))

\* params.Encode() of the url.Values the handlers build: api_password is set
\* only when a password is configured
EncodeParams(password) ==
    IF password # "" THEN "api_password=" \o QueryEscape(password) ELSE ""

-----------------------------------------------------------------------------
(* Configuration: getEnv and init(). *)

getEnv(value, fallback) == IF value # "" THEN value ELSE fallback

-----------------------------------------------------------------------------
(* The Recording of the EasyProxy API.  DurationSeconds and ElapsedSeconds *)
(* count half seconds.                                                     *)

Recording(id, name, status, startedAt, duration, size, isAct, elapsed) ==
    [ ID |-> id, Name |-> name, Status |-> status, StartedAt |-> startedAt,
      DurationSeconds |-> duration, FileSizeBytes |-> size, IsActive |-> isAct,
      ElapsedSeconds |-> elapsed ]

\* int(seconds): the conversion of a float64 to int drops the fraction
IntOf(seconds) == IF seconds >= 0 THEN seconds \div 2 ELSE -((-seconds) \div 2)

\* mutant of formatDuration: the minutes are not reduced modulo the hour
formatDurationTotalMinutes(seconds) ==
    IF seconds <= 0 THEN ""
    ELSE LET h == IntOf(seconds) \div 3600
             m == IntOf(seconds) \div 60
         IN  IF h > 0 THEN ToString(h) \o "h" \o ToString(m) \o "m"
             ELSE ToString(m) \o "m"

formatDuration(seconds) ==
    IF seconds <= 0 THEN ""
    ELSE LET h == IntOf(seconds) \div 3600
             m == (IntOf(seconds) % 3600) \div 60
         IN  IF h > 0 THEN ToString(h) \o "h" \o ToString(m) \o "m"
             ELSE ToString(m) \o "m"

units == <<"B", "KB", "MB", "GB">>

\* the loop of formatFileSize: size is bytes / 1024^unitIndex, exactly
RECURSIVE UnitIndex(_, _)
UnitIndex(bytes, unitIndex) ==
    IF unitIndex < Len(units) - 1 /\ bytes >= 1024 ^ (unitIndex + 1)
    THEN UnitIndex(bytes, unitIndex + 1)
    ELSE unitIndex

\* n / d rounded to the nearest whole number, a tie to the even one: the
\* rounding of the verb %.1f, applied to tenths
RoundHalfEven(n, d) ==
    LET q == n \div d
        r == n % d
    IN  IF 2 * r > d THEN q + 1
        ELSE IF 2 * r < d THEN q
        ELSE IF q % 2 = 0 THEN q ELSE q + 1

formatFileSize(bytes) ==
    IF bytes <= 0 THEN ""
    ELSE LET unitIndex == UnitIndex(bytes, 0)
             tenths == RoundHalfEven(10 * bytes, 1024 ^ unitIndex)
         IN  ToString(tenths \div 10) \o "." \o ToString(tenths % 10)
                 \o units[unitIndex + 1]

Digits == CharsOf("0123456789")

IsDigit(c) == c \in Digits

AllDigits(s) == \A i \in 1..Len(s) : IsDigit(Char(s, i))

RECURSIVE Atoi(_)
Atoi(s) ==
    IF s = "" THEN 0
    ELSE 10 * Atoi(SubSeq(s, 1, Len(s) - 1)) + IndexIn(Char(s, Len(s)), "0123456789") - 1

DaysIn(month, year) ==
    IF month = 2
    THEN (IF year % 4 = 0 /\ (year % 100 # 0 \/ year % 400 = 0) THEN 29 ELSE 28)
    ELSE IF month \in {4, 6, 9, 11} THEN 30 ELSE 31

\* the zone of an RFC 3339 time, after optional fractional seconds
ValidZone(z) ==
    \/ z = "Z"
    \/ /\ Len(z) = 6
       /\ Char(z, 1) \in {"+", "-"}
       /\ AllDigits(SubSeq(z, 2, 3)) /\ Atoi(SubSeq(z, 2, 3)) < 24
       /\ Char(z, 4) = ":"
       /\ AllDigits(SubSeq(z, 5, 6)) /\ Atoi(SubSeq(z, 5, 6)) < 60

RECURSIVE DropDigits(_)
DropDigits(s) == IF s # "" /\ IsDigit(Head(s)) THEN DropDigits(Tail(s)) ELSE s

\* time.Parse(time.RFC3339, s) succeeds: yyyy-mm-ddThh:mm:ss[.fff](Z|+hh:mm)
ValidRFC3339(s) ==
    /\ Len(s) >= 20
    /\ AllDigits(SubSeq(s, 1, 4)) /\ Char(s, 5) = "-"
    /\ AllDigits(SubSeq(s, 6, 7)) /\ Char(s, 8) = "-"
    /\ AllDigits(SubSeq(s, 9, 10)) /\ Char(s, 11) = "T"
    /\ AllDigits(SubSeq(s, 12, 13)) /\ Char(s, 14) = ":"
    /\ AllDigits(SubSeq(s, 15, 16)) /\ Char(s, 17) = ":"
    /\ AllDigits(SubSeq(s, 18, 19))
    /\ Atoi(SubSeq(s, 6, 7)) \in 1..12
    /\ Atoi(SubSeq(s, 9, 10)) \in 1..DaysIn(Atoi(SubSeq(s, 6, 7)), Atoi(SubSeq(s, 1, 4)))
    /\ Atoi(SubSeq(s, 12, 13)) < 24
    /\ Atoi(SubSeq(s, 15, 16)) < 60
    /\ Atoi(SubSeq(s, 18, 19)) < 60
    /\ LET rest == SubSeq(s, 20, Len(s))
       IN  IF Head(rest) = "."
           THEN /\ Len(rest) >= 2 /\ IsDigit(Char(rest, 2))
                /\ ValidZone(DropDigits(Tail(rest)))
           ELSE ValidZone(rest)

\* t.Format("2006-01-02") of the parsed time: the date as written
FormatDate(s) == SubSeq(s, 1, 10)

\* the marker put before the name of a running recording (a red circle and
\* a space in the source)
LiveMarker == "(live) "

recordingToMeta(rec) ==
    LET size == formatFileSize(rec.FileSizeBytes)
        date == IF rec.StartedAt # "" /\ ValidRFC3339(rec.StartedAt)
                THEN FormatDate(rec.StartedAt) ELSE ""
        name == IF rec.Name = "" THEN "Unknown Recording" ELSE rec.Name
        elapsed == formatDuration(rec.ElapsedSeconds)
        duration == formatDuration(rec.DurationSeconds)
        details == (IF duration # "" THEN <<duration>> ELSE <<>>)
                       \o (IF size # "" THEN <<size>> ELSE <<>>)
                       \o (IF date # "" THEN <<date>> ELSE <<>>)
    IN  IF rec.IsActive /\ rec.Status = "recording"
        THEN [ ID |-> "dvr:" \o rec.ID,
               Type |-> "tv",
               Name |-> LiveMarker \o name,
               Description |-> "Recording in progress..."
                   \o (IF elapsed # "" THEN "\nElapsed: " \o elapsed ELSE "")
                   \o (IF size # "" THEN " | Size: " \o size ELSE ""),
               ReleaseInfo |-> date,
               Runtime |-> elapsed ]
        ELSE [ ID |-> "dvr:" \o rec.ID,
               Type |-> "tv",
               Name |-> name,
               Description |-> "Status: " \o rec.Status
                   \o (IF Len(details) > 0 THEN "\n" \o Join(details, " | ") ELSE ""),
               ReleaseInfo |-> date,
               Runtime |-> duration ]

-----------------------------------------------------------------------------
(* sort.Slice(recs, func(i, j) { return recs[i].StartedAt > recs[j].StartedAt }) *)

less(a, b) == StrGreater(a.StartedAt, b.StartedAt)

\* insertion sort: x moves left past every element it is less than
RECURSIVE InsertLast(_, _)
InsertLast(sorted, x) ==
    IF sorted # <<>> /\ less(x, sorted[Len(sorted)])
    THEN Append(InsertLast(SubSeq(sorted, 1, Len(sorted) - 1), x), sorted[Len(sorted)])
    ELSE Append(sorted, x)

RECURSIVE InsertionSort(_)
InsertionSort(recs) ==
    IF recs = <<>> THEN <<>>
    ELSE InsertLast(InsertionSort(SubSeq(recs, 1, Len(recs) - 1)), recs[Len(recs)])

Range(seq) == {seq[i] : i \in 1..Len(seq)}

RemoveFirst(seq, x) ==
    LET i == CHOOSE k \in 1..Len(seq) : seq[k] = x /\ \A j \in 1..(k - 1) : seq[j] # x
    IN  SubSeq(seq, 1, i - 1) \o SubSeq(seq, i + 1, Len(seq))

\* every arrangement of recs in which no element is less than an earlier one
RECURSIVE SortedArrangements(_)
SortedArrangements(recs) ==
    IF recs = <<>> THEN {<<>>}
    ELSE UNION { { <<x>> \o rest : rest \in SortedArrangements(RemoveFirst(recs, x)) } :
                 x \in {y \in Range(recs) : \A z \in Range(recs) : ~less(z, y)} }

\* The results sort.Slice can leave.  sort.Slice is not stable.  Up to 12
\* elements the library sorts by insertion, which keeps equal elements in
\* their order; a longer slice is partitioned around pivots, and the order in
\* which elements that compare equal come out is not specified.
SortSlice(recs) ==
    IF Len(recs) <= 12 THEN {InsertionSort(recs)} ELSE SortedArrangements(recs)

-----------------------------------------------------------------------------
(* The handlers. *)

EmptyMetas == [status |-> 200, metas |-> <<>>]
NullMeta == [status |-> 200, null |-> TRUE]
EmptyStreams == [status |-> 200, streams |-> <<>>]

\* handleCatalog: the search query of the path segments after the catalog id
RECURSIVE ExtractSearch(_, _)
ExtractSearch(extra, query) ==
    IF extra = <<>> THEN query
    ELSE IF HasPrefix(Head(extra), "search=")
         THEN LET raw == ToLower(TrimPrefix(Head(extra), "search="))
                  unescaped == QueryUnescape(raw)
              IN  ExtractSearch(Tail(extra),
                                IF ~unescaped.err THEN ToLower(unescaped.decoded) ELSE raw)
         ELSE ExtractSearch(Tail(extra), query)

\* mutant of Matches: the name is compared as written, not in lower case
MatchesExactCase(rec, query) == query = "" \/ Contains(rec.Name, query)

\* handleCatalog: a record passes the search filter
Matches(rec, query) == query = "" \/ Contains(ToLower(rec.Name), query)

\* handleCatalog: the records appended to active, in upstream order
ActiveBucket(recordings, query) ==
    SelectSeq(recordings,
              LAMBDA rec : Matches(rec, query) /\ (rec.IsActive /\ rec.Status = "recording"))

\* mutant of CompletedBucket: a finished record needs no file
CompletedBucketAnySize(recordings, query) ==
    SelectSeq(recordings,
              LAMBDA rec : /\ Matches(rec, query)
                           /\ ~(rec.IsActive /\ rec.Status = "recording")
                           /\ (\/ rec.Status = "completed"
                               \/ rec.Status = "stopped"
                               \/ rec.Status = "failed"))

\* handleCatalog: the records appended to completed, in upstream order
CompletedBucket(recordings, query) ==
    SelectSeq(recordings,
              LAMBDA rec : /\ Matches(rec, query)
                           /\ ~(rec.IsActive /\ rec.Status = "recording")
                           /\ LET hasValidFile == rec.FileSizeBytes > 0
                                  isFinished == \/ rec.Status = "completed"
                                                \/ rec.Status = "stopped"
                                                \/ rec.Status = "failed"
                              IN  isFinished /\ hasValidFile)

\* mutant of Combine: the finished recordings come first
CombineCompletedFirst(act, comp) == comp \o act

\* handleCatalog: valid := append(active, completed...)
Combine(act, comp) == act \o comp

MetasOf(recs) == [i \in 1..Len(recs) |-> recordingToMeta(recs[i])]

\* mutant of FindByID: the last record with the requested id
RECURSIVE FindLastByID(_, _)
FindLastByID(recordings, id) ==
    IF recordings = <<>> THEN <<>>
    ELSE IF recordings[Len(recordings)].ID = id THEN <<recordings[Len(recordings)]>>
    ELSE FindLastByID(SubSeq(recordings, 1, Len(recordings) - 1), id)

\* handleMeta: the first record with the requested id, <<>> when there is none
RECURSIVE FindByID(_, _)
FindByID(recordings, id) ==
    IF recordings = <<>> THEN <<>>
    ELSE IF Head(recordings).ID = id THEN <<Head(recordings)>>
    ELSE FindByID(Tail(recordings), id)

\* mutant of FoundActive: any running recording counts, whatever its id
FoundActiveAnyID(recordings, id) ==
    \E i \in 1..Len(recordings) :
        recordings[i].IsActive /\ recordings[i].Status = "recording"

\* mutant of FoundActive: the flag alone decides, the status is not read
FoundActiveFlagOnly(recordings, id) ==
    \E i \in 1..Len(recordings) :
        recordings[i].ID = id /\ recordings[i].IsActive

\* handleStream: the loop that sets isActive
FoundActive(recordings, id) ==
    \E i \in 1..Len(recordings) :
        /\ recordings[i].ID = id
        /\ recordings[i].IsActive
        /\ recordings[i].Status = "recording"

StopStreams(base, id, params) ==
    << [ URL |-> base \o "/record/stop/" \o id \o "?" \o params,
         Title |-> "Stop & Watch" ] >>

PlayDeleteStreams(base, id, params) ==
    << [ URL |-> base \o "/api/recordings/" \o id \o "/stream?" \o params,
         Title |-> "Play Recording" ],
       [ URL |-> base \o "/api/recordings/" \o id \o "/delete?" \o params,
         Title |-> "Delete Recording" ] >>

\* handleCatalog: the path is not a request for the dvr-recordings catalog
badCatalogPath(parts) ==
    Len(parts) < 2 \/ parts[1] # "tv" \/ ~HasPrefix(parts[2], "dvr-recordings")

\* handleMeta: the path is not a request for the meta of a dvr: item
badMetaPath(parts) ==
    Len(parts) # 2 \/ parts[1] # "tv" \/ ~HasPrefix(parts[2], "dvr:")

\* mutant of badStreamPath: the item type is not checked
badStreamPathAnyType(parts) ==
    Len(parts) # 2 \/ ~HasPrefix(parts[2], "dvr:")

\* handleStream: the path is not a request for the streams of a dvr: item
badStreamPath(parts) ==
    Len(parts) # 2 \/ parts[1] # "tv" \/ ~HasPrefix(parts[2], "dvr:")

\* the request paths clients send
SearchQueries == {"news", "NEWS", "%4Eews", "evening+news", "100%", ""}

CatalogPaths ==
    {"/catalog/tv/dvr-recordings/search=" \o q \o ".json" : q \in SearchQueries}
    \cup {"/catalog/tv/dvr-recordings.json",
          "/catalog/tv/dvr-recordings/genre=All Recordings.json",
          "/catalog/tv/dvr-recordings-old.json",
          "/catalog/tv/other.json",
          "/catalog/movie/dvr-recordings.json",
          "/catalog/tv.json"}

RequestIDs == {"a", "b", "c", ""}

ItemPaths(resource) ==
    {"/" \o resource \o "/tv/dvr:" \o id \o ".json" : id \in RequestIDs}
    \cup {"/" \o resource \o "/movie/dvr:a.json",
          "/" \o resource \o "/tv/a.json",
          "/" \o resource \o "/tv/dvr:a/extra.json"}

\* fetchRecordings: the upstream's recordings, or an error (a transport
\* error, a status other than 200, a body that is not the expected JSON)
FetchResults == {[err |-> FALSE, recordings |-> upstream], [err |-> TRUE, recordings |-> <<>>]}

handleCatalog ==
    /\ pc = "idle"
    /\ \E p \in CatalogPaths, fetched \in FetchResults :
        \E parts \in {Split(TrimSuffix(TrimPrefix(p, "/catalog/"), ".json"), "/")} :
            /\ path' = p
            /\ pc' = "catalog"
            /\ recordingID' = ""
            /\ isActive' = FALSE
            /\ IF badCatalogPath(parts)
               THEN /\ response' = EmptyMetas
                    /\ err' = FALSE
                    /\ searchQuery' = ""
                    /\ active' = <<>>
                    /\ completed' = <<>>
                    /\ valid' = <<>>
               ELSE /\ searchQuery' = ExtractSearch(SubSeq(parts, 3, Len(parts)), "")
                    /\ err' = fetched.err
                    /\ IF fetched.err
                       THEN /\ response' = EmptyMetas
                            /\ active' = <<>>
                            /\ completed' = <<>>
                            /\ valid' = <<>>
                       ELSE /\ active' \in SortSlice(ActiveBucket(fetched.recordings, searchQuery'))
                            /\ completed' \in
                                   SortSlice(CompletedBucket(fetched.recordings, searchQuery'))
                            /\ valid' = Combine(active', completed')
                            /\ response' = [status |-> 200, metas |-> MetasOf(valid')]
    /\ UNCHANGED <<easyProxyURL, easyProxyPassword, upstream>>

handleMeta ==
    /\ pc = "idle"
    /\ \E p \in ItemPaths("meta"), fetched \in FetchResults :
        \E parts \in {Split(TrimSuffix(TrimPrefix(p, "/meta/"), ".json"), "/")} :
            /\ path' = p
            /\ pc' = "meta"
            /\ searchQuery' = ""
            /\ active' = <<>>
            /\ completed' = <<>>
            /\ valid' = <<>>
            /\ isActive' = FALSE
            /\ IF badMetaPath(parts)
               THEN /\ response' = NullMeta
                    /\ err' = FALSE
                    /\ recordingID' = ""
               ELSE /\ recordingID' = TrimPrefix(parts[2], "dvr:")
                    /\ err' = fetched.err
                    /\ response' =
                           IF fetched.err THEN NullMeta
                           ELSE LET found == FindByID(fetched.recordings, recordingID')
                                IN  IF found # <<>>
                                    THEN [status |-> 200, meta |-> recordingToMeta(found[1])]
                                    ELSE NullMeta
    /\ UNCHANGED <<easyProxyURL, easyProxyPassword, upstream>>

handleStream ==
    /\ pc = "idle"
    /\ \E p \in ItemPaths("stream"), fetched \in FetchResults :
        \E parts \in {Split(TrimSuffix(TrimPrefix(p, "/stream/"), ".json"), "/")},
           params \in {EncodeParams(easyProxyPassword)} :
            /\ path' = p
            /\ pc' = "stream"
            /\ searchQuery' = ""
            /\ active' = <<>>
            /\ completed' = <<>>
            /\ valid' = <<>>
            /\ IF badStreamPath(parts)
               THEN /\ response' = EmptyStreams
                    /\ err' = FALSE
                    /\ recordingID' = ""
                    /\ isActive' = FALSE
               ELSE /\ recordingID' = TrimPrefix(parts[2], "dvr:")
                    /\ err' = fetched.err
                    /\ isActive' = (~fetched.err /\ FoundActive(fetched.recordings, recordingID'))
                    /\ response' =
                           [status |-> 200,
                            streams |-> IF isActive'
                                        THEN StopStreams(easyProxyURL, recordingID', params)
                                        ELSE PlayDeleteStreams(easyProxyURL, recordingID', params)]
    /\ UNCHANGED <<easyProxyURL, easyProxyPassword, upstream>>

\* the handler has returned; the server waits for the next request
serve ==
    /\ pc # "idle"
    /\ pc' = "idle"
    /\ path' = ""
    /\ err' = FALSE
    /\ searchQuery' = ""
    /\ recordingID' = ""
    /\ active' = <<>>
    /\ completed' = <<>>
    /\ valid' = <<>>
    /\ isActive' = FALSE
    /\ response' = [status |-> 0]
    /\ UNCHANGED <<easyProxyURL, easyProxyPassword, upstream>>

Next == handleStream \/ handleMeta \/ handleCatalog \/ serve

-----------------------------------------------------------------------------
(* Initial states: the environment of the process and the upstream's       *)
(* recordings.                                                             *)

RECURSIVE SeqsOfLen(_, _)
SeqsOfLen(S, n) ==
    IF n = 0 THEN {<<>>}
    ELSE {Append(seq, x) : seq \in SeqsOfLen(S, n - 1), x \in S}

SeqsUpTo(S, n) == UNION {SeqsOfLen(S, k) : k \in 0..n}

Environments ==
    [EASYPROXY_URL : {"", "http://dvr.lan/"}, EASYPROXY_PASSWORD : {"", "p&w"}]

Started1 == "2024-01-01T10:00:00Z"
Started2 == "2024-01-02T09:00:00+02:00"

InitWith(envs, upstreams) ==
    /\ \E env \in envs :
        /\ easyProxyURL = TrimRight(getEnv(env.EASYPROXY_URL, "http://localhost:8080"), "/")
        /\ easyProxyPassword = getEnv(env.EASYPROXY_PASSWORD, "")
    /\ upstream \in upstreams
    /\ pc = "idle"
    /\ path = ""
    /\ err = FALSE
    /\ searchQuery = ""
    /\ recordingID = ""
    /\ active = <<>>
    /\ completed = <<>>
    /\ valid = <<>>
    /\ isActive = FALSE
    /\ response = [status |-> 0]

\* recordings that differ in id and lifecycle
Recordings ==
    { Recording(id, "Evening News", status, Started1, 7200, 1536, isAct, 180) :
        id \in {"a", "b"}, status \in {"recording", "completed"}, isAct \in BOOLEAN }

Init == InitWith(Environments, SeqsUpTo(Recordings, MaxRecs))

Spec == Init /\ [][Next]_vars

\* the environment that sets nothing
DefaultEnvironment == {[EASYPROXY_URL |-> "", EASYPROXY_PASSWORD |-> ""]}

\* recordings that differ in start time and bucket, two of each kind
OrderRecordings ==
    { Recording(id, "Evening News", IF isAct THEN "recording" ELSE "completed",
                startedAt, 7200, 1536, isAct, 180) :
        id \in {"a", "b"}, startedAt \in {"", Started1, Started2}, isAct \in BOOLEAN }

TwoDigits(n) == IF n < 10 THEN "0" \o ToString(n) ELSE ToString(n)

\* an upstream response with a bucket longer than 12: thirteen finished
\* recordings r01 .. r13, oldest first, of which r02 and r03 started at the
\* same time, and a running recording that started before them all
LongUpstream ==
    [i \in 1..14 |->
        IF i = 14
        THEN Recording("live", "Evening News", "recording", "2023-12-31T10:00:00Z",
                       0, 1536, TRUE, 180)
        ELSE Recording("r" \o TwoDigits(i), "Evening News", "completed",
                       "2024-01-" \o TwoDigits(IF i <= 2 THEN i ELSE i - 1) \o "T10:00:00Z",
                       7200, 1536, FALSE, 0)]

InitOrder ==
    InitWith(DefaultEnvironment, SeqsUpTo(OrderRecordings, MaxRecs) \cup {LongUpstream})

SpecOrder == InitOrder /\ [][Next]_vars

\* recordings that differ in the fields the classification reads
ClassifyRecordings ==
    { Recording("a", "Evening News", status, Started1, 7200, size, isAct, 180) :
        status \in {"recording", "completed", "stopped", "failed", "scheduled"},
        size \in {0, 1536}, isAct \in BOOLEAN }

InitClassify == InitWith(DefaultEnvironment, SeqsUpTo(ClassifyRecordings, MaxRecs))

SpecClassify == InitClassify /\ [][Next]_vars

\* recordings that differ in name and bucket
SearchRecordings ==
    { Recording("a", name, IF isAct THEN "recording" ELSE "completed",
                Started1, 7200, 1536, isAct, 180) :
        name \in {"Evening News", "Weather", "NEWS 100% Live", ""}, isAct \in BOOLEAN }

InitSearch == InitWith(DefaultEnvironment, SeqsUpTo(SearchRecordings, MaxRecs))

SpecSearch == InitSearch /\ [][Next]_vars

\* numbers of seconds, in half seconds: -1, 0, 0.5, 59, 59.5, 3599.5, 3600
\* and 3661 seconds
SecondsValues == <<-2, 0, 1, 118, 119, 7199, 7200, 7322>>

\* recordings that differ in duration, elapsed time and lifecycle (running,
\* finished, finished with the flag still set); the elapsed time of a record
\* is the value after its duration
FormatRecordings ==
    { Recording("a", "Evening News", kind[1], Started1, SecondsValues[k], 1536, kind[2],
                SecondsValues[(k % Len(SecondsValues)) + 1]) :
        k \in 1..Len(SecondsValues),
        kind \in {<<"recording", TRUE>>, <<"completed", FALSE>>, <<"completed", TRUE>>} }

InitFormat == InitWith(DefaultEnvironment, SeqsUpTo(FormatRecordings, MaxRecs))

SpecFormat == InitFormat /\ [][Next]_vars

-----------------------------------------------------------------------------
(* The lifecycle states of the specification, and what a request asks for. *)

Active(rec) == rec.IsActive /\ rec.Status = "recording"

Eligible(rec) ==
    /\ ~Active(rec)
    /\ rec.Status \in {"completed", "stopped", "failed"}
    /\ rec.FileSizeBytes > 0

Ineligible(rec) == ~Active(rec) /\ ~Eligible(rec)

MetaPath(id) == "/meta/tv/dvr:" \o id \o ".json"

StreamPath(id) == "/stream/tv/dvr:" \o id \o ".json"

Known(id) == \E i \in 1..Len(upstream) : upstream[i].ID = id

\* the credential as it appears in a generated URL
Credential ==
    IF easyProxyPassword = "" THEN ""
    ELSE IF easyProxyPassword = "p&w" THEN "api_password=p%26w"
    ELSE "api_password=" \o easyProxyPassword

StopAction(id) ==
    [ URL |-> easyProxyURL \o "/record/stop/" \o id \o "?" \o Credential,
      Title |-> "Stop & Watch" ]

PlayAction(id) ==
    [ URL |-> easyProxyURL \o "/api/recordings/" \o id \o "/stream?" \o Credential,
      Title |-> "Play Recording" ]

DeleteAction(id) ==
    [ URL |-> easyProxyURL \o "/api/recordings/" \o id \o "/delete?" \o Credential,
      Title |-> "Delete Recording" ]

-----------------------------------------------------------------------------
(* Claims about the stream view. *)

\* C2: the stream view for a well-formed request with id X returns the single
\* stop-and-watch action for X when the fetch succeeds and a record with id X
\* is Active, the actions [play, delete] for X when the fetch succeeds and X
\* is known and not Active, and the same [play, delete] when the fetch fails.
C2_StreamActions ==
    \A id \in RequestIDs :
        (pc = "stream" /\ path = StreamPath(id)) =>
            /\ (~err /\ \E i \in 1..Len(upstream) :
                            upstream[i].ID = id /\ Active(upstream[i]))
                   => response.streams = <<StopAction(id)>>
            /\ (~err /\ Known(id) /\ \A i \in 1..Len(upstream) :
                                         upstream[i].ID = id => ~Active(upstream[i]))
                   => response.streams = <<PlayAction(id), DeleteAction(id)>>
            /\ err => response.streams = <<PlayAction(id), DeleteAction(id)>>

\* C2 witness: with a password configured, the stream of an Active recording
\* that is the second of two upstream records has been served.
C2_Witness ==
    /\ pc = "stream"
    /\ ~err
    /\ easyProxyPassword # ""
    /\ Len(upstream) = 2
    /\ path = StreamPath(upstream[2].ID)
    /\ Active(upstream[2])
    /\ upstream[1].ID # upstream[2].ID
    /\ Len(response.streams) = 1

\* C3: the stream view for an id that matches no record of a successfully
\* fetched set returns no action.
C3_UnknownIdEmpty ==
    \A id \in RequestIDs :
        (pc = "stream" /\ path = StreamPath(id) /\ ~err /\ ~Known(id))
            => response.streams = <<>>

-----------------------------------------------------------------------------
(* Claims about the meta view. *)

\* C6: the meta view for a well-formed request answers with status 200 and a
\* null meta when the fetch fails or no fetched record has the requested id,
\* and otherwise with the DisplayItem of the first record in upstream order
\* that has the requested id, whatever its lifecycle state.
C6_MetaLookup ==
    \A id \in RequestIDs :
        (pc = "meta" /\ path = MetaPath(id)) =>
            /\ response.status = 200
            /\ (err \/ ~Known(id)) => response = NullMeta
            /\ (~err /\ Known(id)) =>
                   \E i \in 1..Len(upstream) :
                       /\ upstream[i].ID = id
                       /\ \A j \in 1..(i - 1) : upstream[j].ID # id
                       /\ response = [status |-> 200, meta |-> recordingToMeta(upstream[i])]

\* C6 witness: two different records share the requested id, the first of
\* them is Ineligible, and a meta has been returned.
C6_Witness ==
    /\ pc = "meta"
    /\ ~err
    /\ Len(upstream) = 2
    /\ path = MetaPath(upstream[1].ID)
    /\ upstream[2].ID = upstream[1].ID
    /\ upstream[2] # upstream[1]
    /\ Ineligible(upstream[1])
    /\ "meta" \in DOMAIN response

-----------------------------------------------------------------------------
(* Claims about requests the views do not serve. *)

\* the path segments of the request, as a client of the given resource
\* sent them
Segments(resource) ==
    Split(TrimSuffix(TrimPrefix(path, "/" \o resource \o "/"), ".json"), "/")

\* malformed or unmatched for the catalog: too few segments, an item type
\* other than tv, or a catalog other than dvr-recordings
MalformedCatalog ==
    LET seg == Segments("catalog")
    IN  Len(seg) < 2 \/ seg[1] # "tv" \/ seg[2] # "dvr-recordings"

\* malformed or unmatched for meta and stream: not two segments, an item type
\* other than tv, an id without the dvr: prefix, or an empty id after it
MalformedItem(resource) ==
    LET seg == Segments(resource)
    IN  Len(seg) # 2 \/ seg[1] # "tv" \/ ~HasPrefix(seg[2], "dvr:") \/ seg[2] = "dvr:"

-----------------------------------------------------------------------------
(* The three views on the Active state. *)

UniqueIDs(recordings) ==
    \A i, j \in 1..Len(recordings) : recordings[i].ID = recordings[j].ID => i = j

\* the meta view renders rec as a running recording
RenderedLive(rec) ==
    LET meta == recordingToMeta(FindByID(upstream, rec.ID)[1])
    IN  /\ HasPrefix(meta.Name, LiveMarker)
        /\ meta.Runtime = formatDuration(rec.ElapsedSeconds)

\* C10: when the upstream ids are unique, a record is in the active segment
\* of the unfiltered catalog if and only if the meta view renders it as a
\* running recording, if and only if the stream view for its id returns the
\* single stop-and-watch action.  Each view's actual response is compared
\* with what the other two views compute for the same upstream.
C10_ViewsAgree ==
    UniqueIDs(upstream) =>
        \A i \in 1..Len(upstream) :
            LET rec == upstream[i]
                inActiveSegment == rec \in Range(ActiveBucket(upstream, ""))
                stopOffered == FoundActive(upstream, rec.ID)
            IN  /\ (pc = "stream" /\ ~err /\ path = StreamPath(rec.ID)) =>
                       /\ (response.streams = <<StopAction(rec.ID)>>) <=> inActiveSegment
                       /\ (response.streams = <<StopAction(rec.ID)>>) <=> RenderedLive(rec)
                /\ (pc = "meta" /\ ~err /\ path = MetaPath(rec.ID)) =>
                       /\ (/\ HasPrefix(response.meta.Name, LiveMarker)
                           /\ response.meta.Runtime = formatDuration(rec.ElapsedSeconds))
                              <=> inActiveSegment
                       /\ HasPrefix(response.meta.Name, LiveMarker) <=> stopOffered
                /\ (pc = "catalog" /\ ~err /\ path = "/catalog/tv/dvr-recordings.json") =>
                       /\ (rec \in Range(active)) <=> stopOffered
                       /\ (rec \in Range(active)) <=> RenderedLive(rec)

\* C10 witness: the stream of a record whose flag is set but whose status is
\* not "recording" has been served next to an Active record.
C10_Witness ==
    /\ pc = "stream"
    /\ ~err
    /\ UniqueIDs(upstream)
    /\ Len(upstream) = 2
    /\ Active(upstream[1])
    /\ upstream[2].IsActive /\ ~Active(upstream[2])
    /\ path = StreamPath(upstream[2].ID)
    /\ Len(response.streams) = 2

-----------------------------------------------------------------------------
(* Claims about the catalog view. *)

Count(seq, x) == Cardinality({i \in 1..Len(seq) : seq[i] = x})

\* seq holds exactly the elements of upstream that satisfy Keep, each as
\* often as upstream does
HoldsExactly(seq, Keep(_)) ==
    \A x \in Range(seq) \cup Range(upstream) :
        Count(seq, x) = IF Keep(x) THEN Count(upstream, x) ELSE 0

\* the record passes the search filter of the request being served
PassesFilter(rec) == searchQuery = "" \/ Contains(ToLower(rec.Name), searchQuery)

\* a well-formed catalog request has been served from a successful fetch
CatalogServed == pc = "catalog" /\ ~MalformedCatalog /\ ~err

\* C1: on a successful fetch, whatever the query, the items of the catalog
\* are those of the list valid, in which every Active record comes before
\* every Eligible record, whatever their start times.
C1_ActiveBeforeEligible ==
    CatalogServed =>
        /\ response.metas = [i \in 1..Len(valid) |-> recordingToMeta(valid[i])]
        /\ \A i, j \in 1..Len(valid) :
               (Active(valid[i]) /\ Eligible(valid[j])) => i < j

\* C1 witness: an Eligible record that started later than an Active record,
\* and precedes it upstream, has been listed after it.
C1_Witness ==
    /\ CatalogServed
    /\ Len(upstream) = 2
    /\ Eligible(upstream[1]) /\ upstream[1].StartedAt = Started2
    /\ Active(upstream[2]) /\ upstream[2].StartedAt = Started1
    /\ valid = <<upstream[2], upstream[1]>>

\* the records of bucket that start at time t, in their order
StartingAt(bucket, t) == SelectSeq(bucket, LAMBDA rec : rec.StartedAt = t)

\* bucket is sorted by start time, latest first, and records with the same
\* start time are in the order of the upstream response
StablySorted(bucket, InBucket(_)) ==
    /\ \A i, j \in 1..Len(bucket) :
           i < j => ~StrGreater(bucket[j].StartedAt, bucket[i].StartedAt)
    /\ \A t \in {upstream[i].StartedAt : i \in 1..Len(upstream)} :
           StartingAt(bucket, t) =
               StartingAt(SelectSeq(upstream,
                                    LAMBDA rec : PassesFilter(rec) /\ InBucket(rec)), t)

\* C4: each bucket of the catalog is sorted by start time, latest first, and
\* the sort is stable: records of a bucket with the same start time keep the
\* order of the upstream response.
C4_StableOrder ==
    CatalogServed =>
        /\ StablySorted(active, Active)
        /\ StablySorted(completed, Eligible)

\* C5: on a successful fetch the catalog holds exactly one item for each
\* record that passes the search filter and is Active or Eligible, the
\* Active ones in the first bucket and the Eligible ones in the second, no
\* item for an Ineligible record, and so none for a completed record
\* without a file.
C5_CatalogMembers ==
    CatalogServed =>
        /\ HoldsExactly(active, LAMBDA rec : PassesFilter(rec) /\ Active(rec))
        /\ HoldsExactly(completed, LAMBDA rec : PassesFilter(rec) /\ Eligible(rec))
        /\ HoldsExactly(valid, LAMBDA rec : PassesFilter(rec) /\ ~Ineligible(rec))
        /\ Len(response.metas) = Len(valid)
        /\ \A i \in 1..Len(valid) :
               /\ response.metas[i].ID = "dvr:" \o valid[i].ID
               /\ ~(valid[i].Status = "completed" /\ valid[i].FileSizeBytes = 0)

\* C5 witness: of a completed record without a file and a failed record with
\* one, only the second is in the catalog.
C5_Witness ==
    /\ CatalogServed
    /\ Len(upstream) = 2
    /\ upstream[1].Status = "completed" /\ upstream[1].FileSizeBytes = 0
    /\ ~upstream[1].IsActive
    /\ upstream[2].Status = "failed" /\ Eligible(upstream[2])
    /\ path = "/catalog/tv/dvr-recordings.json"
    /\ valid = <<upstream[2]>>

-----------------------------------------------------------------------------
(* The search filter. *)

SearchPath(q) == "/catalog/tv/dvr-recordings/search=" \o q \o ".json"

\* the names of the recordings, in lower case
LoweredName(name) ==
    CASE name = "Evening News" -> "evening news"
      [] name = "Weather" -> "weather"
      [] name = "NEWS 100% Live" -> "news 100% live"
      [] OTHER -> name

\* the queries clients send, URL-decoded and in lower case; "100%" holds no
\* escape sequence and stands as written
DecodedQuery(q) ==
    CASE q = "NEWS" -> "news"
      [] q = "%4Eews" -> "news"
      [] q = "evening+news" -> "evening news"
      [] OTHER -> q

\* C8: with a query that is not empty, the catalog holds a record exactly
\* when the record is Active or Eligible and its name in lower case contains
\* the URL-decoded query in lower case, in the Active and in the Eligible
\* bucket alike; with an empty query or none the filter drops no record.
C8_SearchFilter ==
    (pc = "catalog" /\ ~err) =>
        /\ \A q \in SearchQueries :
               path = SearchPath(q) =>
                   LET kept(rec) == q = "" \/ Contains(LoweredName(rec.Name), DecodedQuery(q))
                   IN  /\ HoldsExactly(active, LAMBDA rec : Active(rec) /\ kept(rec))
                       /\ HoldsExactly(completed, LAMBDA rec : Eligible(rec) /\ kept(rec))
                       /\ valid = active \o completed
        /\ path \in {"/catalog/tv/dvr-recordings.json",
                     "/catalog/tv/dvr-recordings/genre=All Recordings.json"} =>
               HoldsExactly(valid, LAMBDA rec : ~Ineligible(rec))

\* C8 witness: the query %4Eews has kept an Active "Evening News" and dropped
\* an Eligible "Weather".
C8_Witness ==
    /\ pc = "catalog"
    /\ ~err
    /\ path = SearchPath("%4Eews")
    /\ Len(upstream) = 2
    /\ upstream[1].Name = "Weather" /\ Eligible(upstream[1])
    /\ upstream[2].Name = "Evening News" /\ Active(upstream[2])
    /\ valid = <<upstream[2]>>

-----------------------------------------------------------------------------
(* The runtime label. *)

\* label is the duration label of a number of half seconds: empty when the
\* number is not positive, and otherwise <h>h<m>m, or <m>m when h is 0, for
\* the h and the m < 60 with 3600 h + 60 m <= floor(seconds) < 3600 h + 60 m + 60
IsDurationLabel(label, seconds) ==
    IF seconds <= 0 THEN label = ""
    ELSE \E h \in 0..2, m \in 0..59 :
             /\ 2 * (3600 * h + 60 * m) <= seconds
             /\ seconds < 2 * (3600 * h + 60 * m + 60)
             /\ label = (IF h >= 1 THEN ToString(h) \o "h" ELSE "") \o ToString(m) \o "m"

\* the seconds the runtime label of a record is made of
RuntimeSeconds(rec) == IF Active(rec) THEN rec.ElapsedSeconds ELSE rec.DurationSeconds

\* C9: the runtime of every item of the catalog and of the meta view is the
\* duration label of elapsedSeconds for an Active recording and of
\* durationSeconds for any other; 3661 seconds give "1h1m" and 59 seconds
\* give "0m".
C9_RuntimeLabel ==
    /\ CatalogServed =>
           \A i \in 1..Len(valid) :
               /\ IsDurationLabel(response.metas[i].Runtime, RuntimeSeconds(valid[i]))
               /\ RuntimeSeconds(valid[i]) = 7322 => response.metas[i].Runtime = "1h1m"
               /\ RuntimeSeconds(valid[i]) = 118 => response.metas[i].Runtime = "0m"
    /\ (pc = "meta" /\ ~err /\ "meta" \in DOMAIN response) =>
           IsDurationLabel(response.meta.Runtime, RuntimeSeconds(upstream[1]))

\* C9 witness: a running recording with 3661 seconds elapsed and a finished
\* one of 59 seconds have been listed with the runtimes "1h1m" and "0m".
C9_Witness ==
    /\ CatalogServed
    /\ Len(valid) = 2
    /\ Active(valid[1]) /\ valid[1].ElapsedSeconds = 7322
    /\ response.metas[1].Runtime = "1h1m"
    /\ ~Active(valid[2]) /\ valid[2].DurationSeconds = 118
    /\ response.metas[2].Runtime = "0m"

====
